---- MODULE Spec2Model ----
(***************************************************************************)
(* The usage-snapshot acquisition scripts (claude-usage.sh,                *)
(* claude-usage-compact.sh, claude-usage-json.sh): each invocation drives  *)
(* a tmux session (new-session, send-keys, send-keys, capture-pane,        *)
(* kill-session), then parses the captured text with grep/sed/head/tr      *)
(* pipelines and prints the result.                                        *)
(*                                                                         *)
(* A text is a sequence of lines; a line is a sequence of atoms.  An atom  *)
(* is one character ("4", "%", " ") or a word none of the scripts'         *)
(* patterns can match a part of, except as stated in GrepHas.              *)
(***************************************************************************)
EXTENDS Integers, Sequences, FiniteSets, TLC

\* ------------------------------------------------------------------ bounds
NumInv == 2
MaxLines == 4

\* --------------------------------------------------------- program constants
\* grep -A2 in the percentage pipelines, grep -A3 in the reset pipelines
PCT_LOOKAHEAD == 2
RESET_LOOKAHEAD == 3

HeadSession == "Current session"
HeadWeekAll == "Current week (all models)"
HeadWeekSonnet == "Current week (Sonnet only)"
ResetsWord == "Resets"
Digits == {"0", "1", "2", "3", "4", "5", "6", "7", "8", "9"}

Max(S) == CHOOSE x \in S : \A y \in S : y <= x
Min(S) == CHOOSE x \in S : \A y \in S : x <= y

\* ---------------------------------------------------------- text utilities
\* $(...) : command substitution removes every trailing newline, so the
\* trailing empty lines of the command's output are lost.
RECURSIVE CommandSubst(_)
CommandSubst(lines) ==
    IF lines # <<>> /\ lines[Len(lines)] = <<>>
    THEN CommandSubst(SubSeq(lines, 1, Len(lines) - 1))
    ELSE lines

\* echo "$OUTPUT" : the lines of the variable; an empty variable gives one
\* empty line.
Echo(text) == IF text = <<>> THEN << <<>> >> ELSE text

\* A week heading's pattern cut to what both week headings share.
GrepHasAnyWeek(line, pat) ==
    \E k \in 1..Len(line) :
        \/ line[k] = pat
        \/ pat \in {"Current week", HeadWeekAll, HeadWeekSonnet}
           /\ line[k] \in {HeadWeekAll, HeadWeekSonnet}

\* Whether grep's pattern pat matches the line.  A pattern matches a line
\* that holds it as an atom; "Current week" is a part of both week headings.
GrepHas(line, pat) ==
    \E k \in 1..Len(line) :
        \/ line[k] = pat
        \/ pat = "Current week" /\ line[k] \in {HeadWeekAll, HeadWeekSonnet}

\* grep -A<n> pat : every matching line and the n lines after it, in input
\* order, each once; groups that are not adjacent are separated by "--".
RECURSIVE GrepAFrom(_, _, _, _)
GrepAFrom(text, sel, k, last) ==
    IF k > Len(text) THEN <<>>
    ELSE IF k \in sel
         THEN (IF last > 0 /\ k > last + 1 THEN << <<"--">> >> ELSE <<>>)
              \o << text[k] >> \o GrepAFrom(text, sel, k + 1, k)
         ELSE GrepAFrom(text, sel, k + 1, last)

GrepA(text, pat, n) ==
    LET hit == {h \in 1..Len(text) : GrepHas(text[h], pat)}
        sel == {k \in 1..Len(text) : \E h \in hit : h <= k /\ k <= h + n}
    IN  GrepAFrom(text, sel, 1, 0)

\* grep pat : the matching lines.
Grep(text, pat) == SelectSeq(text, LAMBDA l : GrepHas(l, pat))

\* The last digit of the run of digits that starts at i.
RECURSIVE DigitRunEnd(_, _)
DigitRunEnd(line, i) ==
    IF i < Len(line) /\ line[i + 1] \in Digits
    THEN DigitRunEnd(line, i + 1)
    ELSE i

\* grep -oE '[0-9]+%' on one line: the non-overlapping matches, leftmost
\* first, each the longest at its place.
RECURSIVE PctMatches(_, _)
PctMatches(line, i) ==
    IF i > Len(line) THEN <<>>
    ELSE IF line[i] \in Digits
         THEN LET e == DigitRunEnd(line, i)
              IN  IF e < Len(line) /\ line[e + 1] = "%"
                  THEN << SubSeq(line, i, e + 1) >> \o PctMatches(line, e + 2)
                  ELSE PctMatches(line, e + 1)
         ELSE PctMatches(line, i + 1)

\* grep -oE '[0-9]+%' : each match on a line of its own.
RECURSIVE GrepO(_)
GrepO(text) ==
    IF text = <<>> THEN <<>>
    ELSE PctMatches(text[1], 1) \o GrepO(Tail(text))

\* head -1
Head1(text) == IF text = <<>> THEN <<>> ELSE << text[1] >>

\* tr -d '%'
TrDelete(text) ==
    [k \in 1..Len(text) |-> SelectSeq(text[k], LAMBDA a : a # "%")]

\* sed 's/.*Resets //' on one line: the greedy .* takes the last
\* "Resets " (keyword and a space); a line without it is left as it is.
SedLine(line) ==
    LET K == {k \in 1..(Len(line) - 1) : line[k] = ResetsWord /\ line[k + 1] = " "}
    IN  IF K = {} THEN line ELSE SubSeq(line, Max(K) + 2, Len(line))

SedResets(text) == [k \in 1..Len(text) |-> SedLine(text[k])]

\* VAR=$(...) : the value of a variable set from a pipeline ending in
\* head -1 is the one line of the output, or the empty string.
Value(lines) == LET s == CommandSubst(lines) IN IF s = <<>> THEN <<>> ELSE s[1]

\* ${VAR:-word}
Default(v, word) == IF v = <<>> THEN word ELSE v

\* ------------------------------------------------------- the three scripts
\* The percentage pipeline with grep -A1.
PctPipelineA1(OUTPUT, heading) ==
    Head1(GrepO(GrepA(Echo(OUTPUT), heading, 1)))

\* ... | grep -A2 "<heading>" | grep -oE '[0-9]+%' | head -1
PctPipeline(OUTPUT, heading) ==
    Head1(GrepO(GrepA(Echo(OUTPUT), heading, PCT_LOOKAHEAD)))

\* claude-usage-compact.sh: SESSION_PCT, WEEK_PCT keep the "%".
CompactPct(OUTPUT, heading) == Value(PctPipeline(OUTPUT, heading))

\* claude-usage-json.sh: SESSION_PCT, WEEK_ALL_PCT, WEEK_SONNET_PCT,
\* with | tr -d '%' at the end.
JsonPct(OUTPUT, heading) == Value(TrDelete(PctPipeline(OUTPUT, heading)))

\* claude-usage-json.sh: SESSION_RESET, WEEK_ALL_RESET, WEEK_SONNET_RESET:
\* ... | grep -A3 "<heading>" | grep "Resets" | sed 's/.*Resets //' | head -1
JsonReset(OUTPUT, heading) ==
    Value(Head1(SedResets(Grep(GrepA(Echo(OUTPUT), heading, RESET_LOOKAHEAD),
                               ResetsWord))))

NoVars ==
    [SESSION_PCT |-> <<>>, WEEK_ALL_PCT |-> <<>>, WEEK_SONNET_PCT |-> <<>>,
     SESSION_RESET |-> <<>>, WEEK_ALL_RESET |-> <<>>, WEEK_SONNET_RESET |-> <<>>]

\* The shell variables after the parse lines of the script.  The compact
\* script's WEEK_PCT is held in WEEK_ALL_PCT; it sets no other variable.
ParseVars(m, OUTPUT) ==
    IF m = "compact"
    THEN [NoVars EXCEPT !.SESSION_PCT = CompactPct(OUTPUT, HeadSession),
                        !.WEEK_ALL_PCT = CompactPct(OUTPUT, HeadWeekAll)]
    ELSE [SESSION_PCT |-> JsonPct(OUTPUT, HeadSession),
          WEEK_ALL_PCT |-> JsonPct(OUTPUT, HeadWeekAll),
          WEEK_SONNET_PCT |-> JsonPct(OUTPUT, HeadWeekSonnet),
          SESSION_RESET |-> JsonReset(OUTPUT, HeadSession),
          WEEK_ALL_RESET |-> JsonReset(OUTPUT, HeadWeekAll),
          WEEK_SONNET_RESET |-> JsonReset(OUTPUT, HeadWeekSonnet)]

\* The compact line with the JSON script's default, 0.
CompactLineZero(v) ==
    << <<"Claude: ">> \o Default(v.SESSION_PCT, <<"0">>)
       \o <<" | Week: ">> \o Default(v.WEEK_ALL_PCT, <<"0">>) >>

\* echo "Claude: ${SESSION_PCT:-?} | Week: ${WEEK_PCT:-?}"
CompactLine(v) ==
    << <<"Claude: ">> \o Default(v.SESSION_PCT, <<"?">>)
       \o <<" | Week: ">> \o Default(v.WEEK_ALL_PCT, <<"?">>) >>

\* The two lines of one window of the here-document.
JsonWindow(pct, reset) ==
    << <<"    \"percent_used\": ">> \o Default(pct, <<"0">>) \o <<",">>,
       <<"    \"resets\": \"">> \o Default(reset, <<"unknown">>) \o <<"\"">> >>

\* cat <<EOF ... EOF ; $(date -Iseconds) is the atom "<date>".
JsonDoc(v) ==
    << <<"{">>,
       <<"  \"timestamp\": \"", "<date>", "\",">>,
       <<"  \"session\": {">> >>
    \o JsonWindow(v.SESSION_PCT, v.SESSION_RESET)
    \o << <<"  },">>, <<"  \"week_all_models\": {">> >>
    \o JsonWindow(v.WEEK_ALL_PCT, v.WEEK_ALL_RESET)
    \o << <<"  },">>, <<"  \"week_sonnet\": {">> >>
    \o JsonWindow(v.WEEK_SONNET_PCT, v.WEEK_SONNET_RESET)
    \o << <<"  }">>, <<"}">> >>

\* claude-usage.sh: grep -E "(Current session|Current week|% used|Resets)"
RawKeep(line) ==
    \/ GrepHas(line, HeadSession)
    \/ GrepHas(line, "Current week")
    \/ GrepHas(line, ResetsWord)
    \/ \E k \in 1..(Len(line) - 2) :
          line[k] = "%" /\ line[k + 1] = " " /\ line[k + 2] = "used"

\* sed 's/^[[:space:]]*//'
RECURSIVE StripLeading(_)
StripLeading(line) ==
    IF line # <<>> /\ line[1] = " " THEN StripLeading(Tail(line)) ELSE line

\* ... | grep -E ... | sed ... | grep -v "^$"
RawFilter(OUTPUT) ==
    LET kept == SelectSeq(Echo(OUTPUT), RawKeep)
        stripped == [k \in 1..Len(kept) |-> StripLeading(kept[k])]
    IN  SelectSeq(stripped, LAMBDA l : l # <<>>)

\* What the script writes to standard output.
Stdout(m, OUTPUT, v) ==
    CASE m = "compact" -> CompactLine(v)
      [] m = "json" -> JsonDoc(v)
      [] OTHER -> RawFilter(OUTPUT)

\* The script's exit status is that of its last command: echo and cat give
\* 0; the raw script ends in grep -v, which gives 1 when it selects no line.
ExitStatus(m, OUTPUT) ==
    IF m = "raw" /\ RawFilter(OUTPUT) = <<>> THEN 1 ELSE 0

\* ---------------------------------------------------------- captured texts
\* The lines a pane is drawn from: an empty line, the three headings, a
\* usage line, a line with a sign, an out-of-range number and a second
\* token, a reset line, and a reset line whose keyword no space follows.
LineBlank == <<>>
LineSession == <<HeadSession>>
LineWeekAll == <<HeadWeekAll>>
LineWeekSonnet == <<HeadWeekSonnet>>
LineUsed == <<" ", "4", "5", "%", " ", "used">>
LineBig == <<"-", "1", "5", "0", "%", " ", "7", "%">>
LineResets == <<" ", ResetsWord, " ", "2h", " ", "30m">>
LineResetsColon == <<ResetsWord, ":", "3pm">>

Lines ==
    {LineBlank, LineSession, LineWeekAll, LineWeekSonnet,
     LineUsed, LineBig, LineResets, LineResetsColon}

\* The texts of at most MaxLines lines.
Texts == UNION {[1..n -> Lines] : n \in 0..MaxLines}

\* What the pane of a live session shows when it is captured: the report.
UsagePane ==
    <<LineSession, LineUsed, LineResets, LineBlank,
      LineWeekAll, LineUsed, LineResets, LineBlank>>
PaneTexts == {UsagePane}

\* ----------------------------------------------------------------- state
Invs == 1..NumInv
\* Process ids, named in the order in which they are first given out.
Pids == 1..NumInv
Modes == {"raw", "compact", "json"}

\* A session name without the process id.
SESSION_NAME_NoPid(p) == <<"claude-usage-", 0>>

\* SESSION_NAME="claude-usage-$$"
SESSION_NAME(p) == <<"claude-usage-", p>>
Names == {SESSION_NAME(p) : p \in Pids}

VARIABLES
    pc,        \* pc[i]: the line invocation i is at, "idle" before it starts
    pid,       \* pid[i]: $$ of invocation i
    mode,      \* mode[i]: the script invocation i runs; the three scripts
               \* are the same up to kill-session, and the model draws the
               \* script at that line ("any" before it)
    avail,     \* whether tmux can be run at all on this machine
    sessions,  \* sessions[n]: the invocation that created live session n, 0 if none
    log,       \* log[i]: the tmux commands invocation i has run, in order
    OUTPUT,    \* OUTPUT[i]: $OUTPUT
    sh,        \* sh[i]: the shell variables set by the parse lines
    stdout,    \* stdout[i]: the lines printed
    exit       \* exit[i]: the exit status, -1 while there is none

\* The useUsageData hook of the widget (src/hooks/useUsageData.ts).  A value
\* that may be null is a sequence: <<>> for null, <<x>> for x.
VARIABLES
    phase,        \* "rendered" before the effect has run, then "mounted",
                  \* then "unmounted" once the effect's cleanup has run
    data,         \* useState<WidgetData | null>(null)
    loading,      \* useState(true)
    error,        \* useState<string | null>(null)
    intervalRef,  \* intervalRef.current
    timers,       \* the interval timers of the window that are set
    calls,        \* calls[k]: the k-th invoke("get_usage_data"), in the
                  \* order they were started: what started it, whether a
                  \* call was in flight when it started, and its outcome
    ticks         \* how many times the interval timer has fired

hookVars == <<phase, data, loading, error, intervalRef, timers, calls, ticks>>

vars == <<pc, pid, mode, avail, sessions, log, OUTPUT, sh, stdout, exit,
          phase, data, loading, error, intervalRef, timers, calls, ticks>>

Null == <<>>
\* The hook as first rendered: the initial values of its state and ref.
HookRendered ==
    /\ phase = "rendered"
    /\ data = Null
    /\ loading = TRUE
    /\ error = Null
    /\ intervalRef = Null
    /\ timers = {}
    /\ calls = <<>>
    /\ ticks = 0

Running(i) == pc[i] \notin {"idle", "done", "aborted"}

\* The lines run under set -e: a failed command ends the script.
NextStepErrexit(step, m, ok) ==
    IF ~ok THEN "done"
    ELSE CASE step = "new" -> "usage"
           [] step = "usage" -> "enter"
           [] step = "enter" -> "capture"
           [] step = "capture" -> "kill"
           [] step = "kill" -> IF m = "raw" THEN "print" ELSE "parse"
           [] step = "parse" -> "print"
           [] OTHER -> "done"

\* The session killed before the pane is captured.
NextStepKillFirst(step, m, ok) ==
    CASE step = "new" -> "usage"
      [] step = "usage" -> "enter"
      [] step = "enter" -> "kill"
      [] step = "kill" -> "capture"
      [] step = "capture" -> IF m = "raw" THEN "print" ELSE "parse"
      [] step = "parse" -> "print"
      [] OTHER -> "done"

\* The order of the lines of a script.  No script tests a status ($?, &&,
\* set -e), so the line after a command does not depend on ok.
NextStep(step, m, ok) ==
    CASE step = "new" -> "usage"
      [] step = "usage" -> "enter"
      [] step = "enter" -> "capture"
      [] step = "capture" -> "kill"
      [] step = "kill" -> IF m = "raw" THEN "print" ELSE "parse"
      [] step = "parse" -> "print"
      [] OTHER -> "done"

\* One tmux command of invocation i, at line step: the log entry (the
\* command, its status, the creator of the session it acted on, and whether
\* that creator was another invocation still running) and the next line.
Ran(i, step, m, cmd, ok, on) ==
    /\ log' = [log EXCEPT ![i] = Append(@,
                  [cmd |-> cmd, ok |-> ok, on |-> on,
                   conc |-> on \notin {0, i} /\ Running(on)])]
    /\ pc' = [pc EXCEPT ![i] = NextStep(step, m, ok)]

Target(i) == SESSION_NAME(pid[i])
\* tmux -t "$SESSION_NAME" finds a session
Found(i) == avail /\ sessions[Target(i)] # 0
FoundOn(i) == IF Found(i) THEN sessions[Target(i)] ELSE 0

Init ==
    /\ pc = [i \in Invs |-> "idle"]
    /\ pid = [i \in Invs |-> 1]
    /\ mode = [i \in Invs |-> "any"]
    /\ avail \in BOOLEAN
    /\ sessions = [n \in Names |-> 0]
    /\ log = [i \in Invs |-> <<>>]
    /\ OUTPUT = [i \in Invs |-> <<>>]
    /\ sh = [i \in Invs |-> NoVars]
    /\ stdout = [i \in Invs |-> <<>>]
    /\ exit = [i \in Invs |-> -1]
    /\ HookRendered

\* A script is started.  The operating system gives it a process id no
\* running process has; the id of an ended process may be given again.
\* Invocations are numbered in the order they start and process ids in the
\* order they are first given out, which leaves out no behaviour but a
\* renaming of one that is kept.
Start(i, p) ==
    /\ pc[i] = "idle"
    /\ \A j \in Invs : j < i => pc[j] # "idle"
    /\ \A j \in Invs : Running(j) => pid[j] # p
    /\ \A q \in Pids : q < p => \E j \in Invs : pc[j] # "idle" /\ pid[j] = q
    /\ pc' = [pc EXCEPT ![i] = "new"]
    /\ pid' = [pid EXCEPT ![i] = p]
    /\ UNCHANGED <<mode, avail, sessions, log, OUTPUT, sh, stdout, exit>>
    /\ UNCHANGED hookVars

\* tmux new-session -d -s "$SESSION_NAME" 'claude' 2>/dev/null
NewSession(i) ==
    /\ pc[i] = "new"
    /\ LET ok == avail /\ sessions[Target(i)] = 0
       IN  /\ sessions' = IF ok THEN [sessions EXCEPT ![Target(i)] = i]
                                ELSE sessions
           /\ Ran(i, "new", mode[i], "new-session", ok, IF ok THEN i ELSE 0)
    /\ UNCHANGED <<pid, mode, avail, OUTPUT, sh, stdout, exit>>
    /\ UNCHANGED hookVars

\* tmux send-keys -t "$SESSION_NAME" '/usage'
SendUsage(i) ==
    /\ pc[i] = "usage"
    /\ Ran(i, "usage", mode[i], "send-keys /usage", Found(i), FoundOn(i))
    /\ UNCHANGED <<pid, mode, avail, sessions, OUTPUT, sh, stdout, exit>>
    /\ UNCHANGED hookVars

\* tmux send-keys -t "$SESSION_NAME" Enter
SendEnter(i) ==
    /\ pc[i] = "enter"
    /\ Ran(i, "enter", mode[i], "send-keys Enter", Found(i), FoundOn(i))
    /\ UNCHANGED <<pid, mode, avail, sessions, OUTPUT, sh, stdout, exit>>
    /\ UNCHANGED hookVars

\* OUTPUT=$(tmux capture-pane -t "$SESSION_NAME" -p 2>/dev/null)
CapturePane(i) ==
    /\ pc[i] = "capture"
    /\ IF Found(i)
       THEN \E t \in PaneTexts : OUTPUT' = [OUTPUT EXCEPT ![i] = CommandSubst(t)]
       ELSE OUTPUT' = [OUTPUT EXCEPT ![i] = <<>>]
    /\ Ran(i, "capture", mode[i], "capture-pane", Found(i), FoundOn(i))
    /\ UNCHANGED <<pid, mode, avail, sessions, sh, stdout, exit>>
    /\ UNCHANGED hookVars

\* tmux kill-session -t "$SESSION_NAME" 2>/dev/null
KillSession(i, m) ==
    /\ pc[i] = "kill"
    /\ sessions' = IF Found(i) THEN [sessions EXCEPT ![Target(i)] = 0]
                               ELSE sessions
    /\ mode' = [mode EXCEPT ![i] = m]
    /\ Ran(i, "kill", m, "kill-session", Found(i), FoundOn(i))
    /\ UNCHANGED <<pid, avail, OUTPUT, sh, stdout, exit>>
    /\ UNCHANGED hookVars

\* The lines that set SESSION_PCT ... WEEK_SONNET_RESET.
Parse(i) ==
    /\ pc[i] = "parse"
    /\ sh' = [sh EXCEPT ![i] = ParseVars(mode[i], OUTPUT[i])]
    /\ pc' = [pc EXCEPT ![i] = NextStep("parse", mode[i], TRUE)]
    /\ UNCHANGED <<pid, mode, avail, sessions, log, OUTPUT, stdout, exit>>
    /\ UNCHANGED hookVars

\* The last command of the script, and the script's end.
WriteStdout(i) ==
    /\ pc[i] = "print"
    /\ stdout' = [stdout EXCEPT ![i] = Stdout(mode[i], OUTPUT[i], sh[i])]
    /\ exit' = [exit EXCEPT ![i] = ExitStatus(mode[i], OUTPUT[i])]
    /\ pc' = [pc EXCEPT ![i] = NextStep("print", mode[i], TRUE)]
    /\ UNCHANGED <<pid, mode, avail, sessions, log, OUTPUT, sh>>
    /\ UNCHANGED hookVars

\* A signal ends the script where it is: no script sets a trap.  The
\* process and its variables are gone, and its log with them; nothing was
\* printed.
Abort(i) ==
    /\ Running(i)
    /\ pc' = [pc EXCEPT ![i] = "aborted"]
    /\ log' = [log EXCEPT ![i] = <<>>]
    /\ OUTPUT' = [OUTPUT EXCEPT ![i] = <<>>]
    /\ sh' = [sh EXCEPT ![i] = NoVars]
    /\ mode' = [mode EXCEPT ![i] = "any"]
    /\ UNCHANGED <<pid, avail, sessions, stdout, exit>>
    /\ UNCHANGED hookVars

\* The program of a session exits (or is not installed), and the session
\* ends with it.
SessionExit(n) ==
    /\ sessions[n] # 0
    /\ sessions' = [sessions EXCEPT ![n] = 0]
    /\ UNCHANGED <<pc, pid, mode, avail, log, OUTPUT, sh, stdout, exit>>
    /\ UNCHANGED hookVars

Next ==
    \/ \E i \in Invs, p \in Pids : Start(i, p)
    \/ \E i \in Invs : NewSession(i)
    \/ \E i \in Invs : SendUsage(i)
    \/ \E i \in Invs : SendEnter(i)
    \/ \E i \in Invs : CapturePane(i)
    \/ \E i \in Invs, m \in Modes : KillSession(i, m)
    \/ \E i \in Invs : Parse(i)
    \/ \E i \in Invs : WriteStdout(i)
    \/ \E i \in Invs : Abort(i)
    \/ \E n \in Names : SessionExit(n)

Spec == Init /\ [][Next]_vars

\* The parse and output lines on every captured text of at most MaxLines
\* lines: invocation 1 has created its session, sent the keys and captured
\* the pane, and is at the kill-session line.
RanOk(cmd) == [cmd |-> cmd, ok |-> TRUE, on |-> 1, conc |-> FALSE]

InitParse ==
    /\ pc = [i \in Invs |-> IF i = 1 THEN "kill" ELSE "idle"]
    /\ pid = [i \in Invs |-> 1]
    /\ mode = [i \in Invs |-> "any"]
    /\ avail = TRUE
    /\ sessions = [n \in Names |-> IF n = SESSION_NAME(1) THEN 1 ELSE 0]
    /\ log = [i \in Invs |->
                IF i = 1
                THEN <<RanOk("new-session"), RanOk("send-keys /usage"),
                       RanOk("send-keys Enter"), RanOk("capture-pane")>>
                ELSE <<>>]
    /\ \E t \in Texts : OUTPUT = [i \in Invs |-> IF i = 1 THEN CommandSubst(t) ELSE <<>>]
    /\ sh = [i \in Invs |-> NoVars]
    /\ stdout = [i \in Invs |-> <<>>]
    /\ exit = [i \in Invs |-> -1]
    /\ HookRendered

NextParse ==
    \/ \E m \in Modes : KillSession(1, m)
    \/ Parse(1)
    \/ WriteStdout(1)

SpecParse == InitParse /\ [][NextParse]_vars

\* ================================================================ claims
Cmds(i) == [k \in 1..Len(log[i]) |-> log[i][k].cmd]
Kills(i) == Cardinality({k \in 1..Len(log[i]) : log[i][k].cmd = "kill-session"})
PastKill(i) == pc[i] \in {"parse", "print", "done"}
Owned(i) == {n \in Names : sessions[n] = i}
DeclaredOrder ==
    <<"new-session", "send-keys /usage", "send-keys Enter", "capture-pane",
      "kill-session">>

\* C1: an invocation has run kill-session at most once, and every invocation
\* that has passed the kill-session line has run it exactly once, whether
\* new-session, the two send-keys and capture-pane succeeded or failed.
C1_KillExactlyOnce ==
    \A i \in Invs :
        /\ Kills(i) <= 1
        /\ PastKill(i) => Kills(i) = 1

\* An invocation whose session was created and then ended before the
\* capture: send-keys and capture-pane failed, and kill-session was run once.
C1_Witness ==
    \E i \in Invs :
        /\ pc[i] = "done"
        /\ log[i][1].ok /\ ~log[i][2].ok /\ ~log[i][4].ok
        /\ Kills(i) = 1

\* C2: no session outlives its invocation: once an invocation has ended,
\* normally or between new-session and kill-session, the session it
\* created is not live; and no invocation has two live sessions.
C2_NoSessionOutlivesInvocation ==
    \A i \in Invs :
        /\ pc[i] \in {"done", "aborted"} => Owned(i) = {}
        /\ Cardinality(Owned(i)) <= 1

\* The fields a compact line and a JSON document show.
CompactField(line, w) ==
    LET bar == CHOOSE k \in 1..Len(line) : line[k] = " | Week: "
    IN  IF w = "session" THEN SubSeq(line, 2, bar - 1)
        ELSE SubSeq(line, bar + 1, Len(line))
JsonRow(w) ==
    CASE w = "session" -> 4 [] w = "week_all_models" -> 8 [] OTHER -> 12
JsonPercentUsed(doc, w) == SubSeq(doc[JsonRow(w)], 2, Len(doc[JsonRow(w)]) - 1)
JsonResets(doc, w) == SubSeq(doc[JsonRow(w) + 1], 2, Len(doc[JsonRow(w) + 1]) - 1)
Windows(m) ==
    IF m = "compact" THEN {"session", "week_all_models"}
    ELSE {"session", "week_all_models", "week_sonnet"}
AllUnknown(m, out) ==
    IF m = "compact"
    THEN /\ Len(out) = 1
         /\ \A w \in Windows(m) : CompactField(out[1], w) = <<"?">>
    ELSE /\ Len(out) = 15
         /\ \A w \in Windows(m) :
               /\ JsonPercentUsed(out, w) = <<"0">>
               /\ JsonResets(out, w) = <<"unknown">>

\* C3: when new-session fails (tmux cannot be run, or a session of that
\* name exists), the compact or JSON invocation prints every field as
\* unknown and exits with status 0.
C3_CreateFailureAllUnknown ==
    \A i \in Invs :
        (pc[i] = "done" /\ mode[i] \in {"compact", "json"} /\ ~log[i][1].ok)
            => AllUnknown(mode[i], stdout[i]) /\ exit[i] = 0

C5_DeclaredOrder ==
    \A i \in Invs :
        /\ Len(log[i]) <= Len(DeclaredOrder)
        /\ Cmds(i) = SubSeq(DeclaredOrder, 1, Len(log[i]))
        /\ PastKill(i) => Len(log[i]) = Len(DeclaredOrder)

\* An invocation that ended after capturing the report and killing its
\* session.
C5_Witness ==
    \E i \in Invs :
        /\ pc[i] = "done"
        /\ \A k \in 1..Len(log[i]) : log[i][k].ok /\ log[i][k].on = i
        /\ OUTPUT[i] = CommandSubst(UsagePane)

\* ------------------------------------------------ claims on the parser
\* What the claims say of a captured text, stated on the text itself.
HasAtom(line, a) == \E k \in 1..Len(line) : line[k] = a
HeadingOf(w) ==
    CASE w = "session" -> HeadSession
      [] w = "week_all_models" -> HeadWeekAll
      [] OTHER -> HeadWeekSonnet
PctVar(v, w) ==
    CASE w = "session" -> v.SESSION_PCT
      [] w = "week_all_models" -> v.WEEK_ALL_PCT
      [] OTHER -> v.WEEK_SONNET_PCT
ResetVar(v, w) ==
    CASE w = "session" -> v.SESSION_RESET
      [] w = "week_all_models" -> v.WEEK_ALL_RESET
      [] OTHER -> v.WEEK_SONNET_RESET

\* The lines holding the heading of window w.
HeadingRows(text, w) == {h \in 1..Len(text) : HasAtom(text[h], HeadingOf(w))}
\* The lines within n lines of a heading of w, the heading line included.
NearRows(text, w, n) ==
    {l \in 1..Len(text) : \E h \in HeadingRows(text, w) : h <= l /\ l <= h + n}
\* Columns c..d of the line are a whole number followed by "%".
IsToken(line, c, d) ==
    /\ c < d /\ d <= Len(line) /\ line[d] = "%"
    /\ \A k \in c..(d - 1) : line[k] \in Digits
    /\ c = 1 \/ line[c - 1] \notin Digits
\* The places <<line, first column, last column>> near a heading where a
\* digit and a "%" stand, and those of them that are tokens.
TokenPlaces(text, w, n) ==
    UNION {{<<l, c, d>> :
               c \in {k \in 1..Len(text[l]) : text[l][k] \in Digits},
               d \in {k \in 1..Len(text[l]) : text[l][k] = "%"}}
           : l \in NearRows(text, w, n)}
Tokens(text, w, n) ==
    {p \in TokenPlaces(text, w, n) : IsToken(text[p[1]], p[2], p[3])}
FirstPlace(P) ==
    CHOOSE p \in P : \A q \in P : p[1] < q[1] \/ (p[1] = q[1] /\ p[2] <= q[2])
FirstToken(text, P) ==
    LET p == FirstPlace(P) IN SubSeq(text[p[1]], p[2], p[3])
StripPct(t) ==
    IF t # <<>> /\ t[Len(t)] = "%" THEN SubSeq(t, 1, Len(t) - 1) ELSE t
Parsed(i) == pc[i] = "print" /\ mode[i] \in {"compact", "json"}
Printed(i, m) == pc[i] = "done" /\ mode[i] = m

\* C6: when a heading of a window is followed, on its line or one of the 2
\* lines after it, by a token NN%, the percentage parsed for that window is
\* the number of the first such token.
C6_FirstTokenExtracted ==
    \A i \in Invs : Parsed(i) =>
        \A w \in Windows(mode[i]) :
            LET P == Tokens(OUTPUT[i], w, 2)
            IN  P # {} => StripPct(PctVar(sh[i], w)) = StripPct(FirstToken(OUTPUT[i], P))

\* The token is on the second line after the heading, and is parsed.
C6_Witness ==
    /\ Parsed(1) /\ mode[1] = "json"
    /\ OUTPUT[1] = <<LineWeekSonnet, LineBlank, LineUsed>>
    /\ sh[1].WEEK_SONNET_PCT = <<"4", "5">>

\* The text after the keyword of a reset line ("Resets 2h 30m": "2h 30m").
AfterKeyword(line) ==
    LET k == Min({j \in 1..Len(line) : line[j] = ResetsWord})
        rest == SubSeq(line, k + 1, Len(line))
    IN  IF rest # <<>> /\ rest[1] = " " THEN Tail(rest) ELSE rest
ResetRows(text, w) ==
    {l \in NearRows(text, w, 3) : HasAtom(text[l], ResetsWord)}

\* C7: when a line holding "Resets" is on the heading line of a window or
\* one of the 3 lines after it, the window's resets value is the text after
\* the keyword on the first such line.
C7_ResetTextAfterKeyword ==
    \A i \in Invs : (Parsed(i) /\ mode[i] = "json") =>
        \A w \in Windows("json") :
            ResetRows(OUTPUT[i], w) # {} =>
                ResetVar(sh[i], w)
                    = AfterKeyword(OUTPUT[i][Min(ResetRows(OUTPUT[i], w))])

\* The lines of the text that are a heading of w or one of the 3 lines
\* after it, in order.
RECURSIVE Pick(_, _, _)
Pick(text, rows, k) ==
    IF k > Len(text) THEN <<>>
    ELSE (IF k \in rows THEN << text[k] >> ELSE <<>>) \o Pick(text, rows, k + 1)
OwnLines(text, w) == Pick(text, NearRows(text, w, 3), 1)

\* The fields the output shows for window w.
Shown(m, out, w) ==
    IF m = "compact" THEN <<CompactField(out[1], w)>>
    ELSE <<JsonPercentUsed(out, w), JsonResets(out, w)>>
ShownDefault(m) == IF m = "compact" THEN << <<"?">> >> ELSE << <<"0">>, <<"unknown">> >>

\* C8: when no line holds the heading of a window, the output shows that
\* window's defaults (compact "?", JSON 0 and "unknown"), and shows for
\* every other window what that window's own heading lines and the lines
\* after them give alone.
C8_MissingHeadingIndependent ==
    \A i \in Invs : \A m \in {"compact", "json"} : Printed(i, m) =>
        \A w \in Windows(m) :
            HeadingRows(OUTPUT[i], w) = {} =>
                /\ Shown(m, stdout[i], w) = ShownDefault(m)
                /\ \A o \in Windows(m) \ {w} :
                      LET own == OwnLines(OUTPUT[i], o)
                      IN  Shown(m, stdout[i], o)
                              = Shown(m, Stdout(m, own, ParseVars(m, own)), o)

\* No week (all models) heading; the Sonnet heading and the session's lines
\* are there, and the session's values are shown.
C8_Witness ==
    /\ Printed(1, "json")
    /\ OUTPUT[1] = <<LineWeekSonnet, LineSession, LineUsed, LineResets>>
    /\ Shown("json", stdout[1], "session") = << <<"4", "5">>, <<"2h", " ", "30m">> >>
    /\ Shown("json", stdout[1], "week_all_models") = ShownDefault("json")

DigitVal(c) == CHOOSE n \in 0..9 : ToString(n) = c
RECURSIVE Num(_)
Num(d) ==
    IF d = <<>> THEN 0
    ELSE 10 * Num(SubSeq(d, 1, Len(d) - 1)) + DigitVal(d[Len(d)])
InRange(field) ==
    \/ field = <<"?">>
    \/ /\ Len(field) >= 2 /\ field[Len(field)] = "%"
       /\ \A k \in 1..(Len(field) - 1) : field[k] \in Digits
       /\ Num(StripPct(field)) <= 100

\* C9: the compact line shows no negative number and no percentage above
\* 100: a token out of [0,100] is shown as the placeholder.
C9_CompactInRange ==
    \A i \in Invs : Printed(i, "compact") =>
        /\ ~HasAtom(stdout[i][1], "-")
        /\ \A w \in Windows("compact") : InRange(CompactField(stdout[i][1], w))

\* The value the claim has for a window: the first token's number, or "?".
NumberOrPlaceholder(text, w) ==
    LET P == Tokens(text, w, 2)
    IN  IF P # {} THEN StripPct(FirstToken(text, P)) ELSE <<"?">>
\* The field the script prints: the first token with its "%", or a bare "?".
TokenOrPlaceholder(text, w) ==
    LET P == Tokens(text, w, 2)
    IN  IF P # {} THEN FirstToken(text, P) ELSE <<"?">>

\* C10 as stated: one line "Claude: <P1>% | Week: <P2>%", each value the
\* parsed percentage or "?", and exit status 0.
C10_CompactLineAsStated ==
    \A i \in Invs : Printed(i, "compact") =>
        /\ exit[i] = 0
        /\ stdout[i] =
             << <<"Claude: ">> \o NumberOrPlaceholder(OUTPUT[i], "session") \o <<"%">>
                \o <<" | Week: ">>
                \o NumberOrPlaceholder(OUTPUT[i], "week_all_models") \o <<"%">> >>

\* C10 amended: one line "Claude: <F1> | Week: <F2>", each field the parsed
\* percentage followed by "%", or a bare "?" with no "%", and exit status 0.
C10_CompactLine ==
    \A i \in Invs : Printed(i, "compact") =>
        /\ exit[i] = 0
        /\ stdout[i] =
             << <<"Claude: ">> \o TokenOrPlaceholder(OUTPUT[i], "session")
                \o <<" | Week: ">>
                \o TokenOrPlaceholder(OUTPUT[i], "week_all_models") >>

\* The empty text (a failed capture): both fields are the bare placeholder.
C10_Witness ==
    /\ Printed(1, "compact")
    /\ OUTPUT[1] = <<>>
    /\ stdout[1] = << <<"Claude: ", "?", " | Week: ", "?">> >>

\* ------------------------------------------------ the JSON document
\* Captured texts for the JSON script: the lines above, a reset line whose
\* text holds a double quote, and a usage line whose number has a leading
\* zero.
LineResetsQuoted == <<" ", ResetsWord, " ", "\"", "5pm", "\"">>
LineLeadingZero == <<" ", "0", "7", "%", " ", "used">>
JsonLines == Lines \cup {LineResetsQuoted, LineLeadingZero}
JsonTexts == UNION {[1..n -> JsonLines] : n \in 0..MaxLines}

\* claude-usage-json.sh from its kill-session line on, on every such text.
InitJson ==
    /\ pc = [i \in Invs |-> IF i = 1 THEN "kill" ELSE "idle"]
    /\ pid = [i \in Invs |-> 1]
    /\ mode = [i \in Invs |-> "any"]
    /\ avail = TRUE
    /\ sessions = [n \in Names |-> IF n = SESSION_NAME(1) THEN 1 ELSE 0]
    /\ log = [i \in Invs |->
                IF i = 1
                THEN <<RanOk("new-session"), RanOk("send-keys /usage"),
                       RanOk("send-keys Enter"), RanOk("capture-pane")>>
                ELSE <<>>]
    /\ \E t \in JsonTexts :
          OUTPUT = [i \in Invs |-> IF i = 1 THEN CommandSubst(t) ELSE <<>>]
    /\ sh = [i \in Invs |-> NoVars]
    /\ stdout = [i \in Invs |-> <<>>]
    /\ exit = [i \in Invs |-> -1]
    /\ HookRendered

NextJson ==
    \/ KillSession(1, "json")
    \/ Parse(1)
    \/ WriteStdout(1)

SpecJson == InitJson /\ [][NextJson]_vars

\* A JSON integer: digits, with no leading zero unless it is "0" itself.
JsonInteger(f) ==
    /\ f # <<>>
    /\ \A k \in 1..Len(f) : f[k] \in Digits
    /\ Len(f) > 1 => f[1] # "0"
\* The inside of a JSON string: no bare double quote and no bare backslash.
JsonStringBody(s) == \A k \in 1..Len(s) : s[k] \notin {"\"", "\\"}
\* The fields of a document, read at their places.
JsonFields(doc) ==
    [SESSION_PCT |-> JsonPercentUsed(doc, "session"),
     WEEK_ALL_PCT |-> JsonPercentUsed(doc, "week_all_models"),
     WEEK_SONNET_PCT |-> JsonPercentUsed(doc, "week_sonnet"),
     SESSION_RESET |-> JsonResets(doc, "session"),
     WEEK_ALL_RESET |-> JsonResets(doc, "week_all_models"),
     WEEK_SONNET_RESET |-> JsonResets(doc, "week_sonnet")]
\* One object with a timestamp and the three window objects, each value an
\* integer and each resets a string.
JsonWellFormed(doc) ==
    /\ Len(doc) = 15
    /\ doc[2] = <<"  \"timestamp\": \"", "<date>", "\",">>
    /\ doc = JsonDoc(JsonFields(doc))
    /\ \A w \in Windows("json") :
          /\ JsonInteger(JsonPercentUsed(doc, w))
          /\ JsonStringBody(JsonResets(doc, w))

\* C11: for every captured text the JSON script prints one well-formed
\* JSON object (timestamp, session, week_all_models, week_sonnet), with
\* percent_used a JSON integer, 0 when no token is found, and resets a JSON
\* string, "unknown" when no reset line is found, and exits with status 0.
C11_JsonWellFormed ==
    \A i \in Invs : Printed(i, "json") =>
        /\ exit[i] = 0
        /\ JsonWellFormed(stdout[i])
        /\ \A w \in Windows("json") :
              /\ Tokens(OUTPUT[i], w, 2) = {}
                    => JsonPercentUsed(stdout[i], w) = <<"0">>
              /\ ResetRows(OUTPUT[i], w) = {}
                    => JsonResets(stdout[i], w) = <<"unknown">>

\* Without the two kinds of line: the document is well formed on every
\* text whose tokens have no leading zero and whose reset text has no quote.
PlainTextsWellFormed ==
    \A i \in Invs :
        (Printed(i, "json")
         /\ \A k \in 1..Len(OUTPUT[i]) :
               OUTPUT[i][k] \notin {LineResetsQuoted, LineLeadingZero})
        => JsonWellFormed(stdout[i])

\* ------------------------------------------------ a window's own lines
\* The lines from a heading of w up to, and not including, the next line
\* that holds the heading of another window the script m looks for.
SectionRows(m, text, w) ==
    {l \in 1..Len(text) :
        \E h \in HeadingRows(text, w) :
            /\ h <= l
            /\ \A k \in (h + 1)..l :
                  \A o \in Windows(m) \ {w} : k \notin HeadingRows(text, o)}
\* The value is the end of the line (the line, or what follows a part of it).
EndOf(value, line) ==
    \E k \in 1..(Len(line) + 1) : SubSeq(line, k, Len(line)) = value

\* The values parsed by invocation i are taken from the windows' own lines.
FromOwnSection(i) ==
    \A w \in Windows(mode[i]) :
        LET own == SectionRows(mode[i], OUTPUT[i], w)
        IN  /\ PctVar(sh[i], w) # <<>> =>
                  \E p \in Tokens(OUTPUT[i], w, 2) :
                      /\ p[1] \in own
                      /\ StripPct(SubSeq(OUTPUT[i][p[1]], p[2], p[3]))
                             = StripPct(PctVar(sh[i], w))
            /\ ResetVar(sh[i], w) # <<>> =>
                  \E l \in ResetRows(OUTPUT[i], w) :
                      /\ l \in own
                      /\ EndOf(ResetVar(sh[i], w), OUTPUT[i][l])

\* C14: the percentage parsed for a window is the number of a token on one
\* of the window's own lines, and the reset text parsed for it is taken
\* from a Resets line among the window's own lines: nothing on or after
\* the heading line of another window is given to the earlier window.
C14_OwnSectionOnly ==
    \A i \in Invs : Parsed(i) => FromOwnSection(i)

\* The same on the texts in which no heading of another window is on one
\* of the 3 lines after a heading.
HeadingsApart(m, text) ==
    \A w \in Windows(m) : NearRows(text, w, 3) \subseteq SectionRows(m, text, w)
OwnSectionWhenApart ==
    \A i \in Invs :
        (Parsed(i) /\ HeadingsApart(mode[i], OUTPUT[i])) => FromOwnSection(i)

\* ================================================= the useUsageData hook
\* The most invoke calls started in one behaviour.
MaxCalls == 3

\* const DEFAULT_REFRESH_INTERVAL = 60_000, in milliseconds
DEFAULT_REFRESH_INTERVAL == 60000

\* What get_usage_data resolves with: a WidgetData, of which the model keeps
\* one percentage and the error field (string | null).
Percents == {10, 90}
Errors == {Null, <<"">>, <<"rate limited">>}
Results == [percent : Percents, error : Errors]
\* What it rejects with: err.message, or String(err).
Failures == {"invoke failed"}

\* x || null on a string | null: null and the empty string give null.
OrNull(e) == IF e = Null \/ e = <<"">> THEN Null ELSE e

scriptVars == <<pc, pid, mode, avail, sessions, log, OUTPUT, sh, stdout, exit>>

\* A state setter: React drops the update of a component that is unmounted.
SetState(cur, v) == IF phase = "unmounted" THEN cur ELSE v

Pending(k) == calls[k].status = "pending"
InFlight == {k \in 1..Len(calls) : Pending(k)}

\* fetchData that starts no call while one is in flight.
FetchDataUnlessInFlight(by) ==
    IF InFlight # {}
    THEN UNCHANGED <<loading, calls, data, error>>
    ELSE /\ loading' = SetState(loading, TRUE)
         /\ calls' = Append(calls, [by |-> by, status |-> "pending",
                                    overlaps |-> InFlight # {},
                                    result |-> Null, message |-> Null])
         /\ UNCHANGED <<data, error>>

\* fetchData up to its await: setLoading(true), and the call is started.
FetchData(by) ==
    /\ loading' = SetState(loading, TRUE)
    /\ calls' = Append(calls, [by |-> by, status |-> "pending",
                               overlaps |-> InFlight # {},
                               result |-> Null, message |-> Null])
    /\ UNCHANGED <<data, error>>

\* The effect: the first fetch, and the interval timer is set.
Mount ==
    /\ phase = "rendered"
    /\ phase' = "mounted"
    /\ FetchData("mount")
    /\ intervalRef' = <<1>>
    /\ timers' = timers \cup {[id |-> 1, ms |-> DEFAULT_REFRESH_INTERVAL]}
    /\ UNCHANGED ticks
    /\ UNCHANGED scriptVars

\* The interval timer fires and calls fetchData.
Tick ==
    /\ timers # {}
    /\ Len(calls) < MaxCalls
    /\ ticks' = ticks + 1
    /\ FetchData("timer")
    /\ UNCHANGED <<phase, intervalRef, timers>>
    /\ UNCHANGED scriptVars

\* refresh(), from the tray's refresh-usage event (the listener of App) or
\* from the refresh button.  App removes its listener in a promise callback
\* of its own cleanup, so the event may still arrive after the cleanup.
Refresh ==
    /\ phase # "rendered"
    /\ Len(calls) < MaxCalls
    /\ FetchData("refresh")
    /\ UNCHANGED <<phase, intervalRef, timers, ticks>>
    /\ UNCHANGED scriptVars

\* The call k resolves with r: the rest of the try block, then finally.
Resolve(k, r) ==
    /\ Pending(k)
    /\ calls' = [calls EXCEPT ![k].status = "resolved", ![k].result = <<r>>]
    /\ data' = SetState(data, <<r>>)
    /\ error' = SetState(error, OrNull(r.error))
    /\ loading' = SetState(loading, FALSE)
    /\ UNCHANGED <<phase, intervalRef, timers, ticks>>
    /\ UNCHANGED scriptVars

\* A catch block that also forgets the data.
RejectClearsData(k, msg) ==
    /\ Pending(k)
    /\ calls' = [calls EXCEPT ![k].status = "rejected", ![k].message = <<msg>>]
    /\ data' = SetState(data, Null)
    /\ error' = SetState(error, <<msg>>)
    /\ loading' = SetState(loading, FALSE)
    /\ UNCHANGED <<phase, intervalRef, timers, ticks>>
    /\ UNCHANGED scriptVars

\* The call k rejects with msg: the catch block, then finally.
Reject(k, msg) ==
    /\ Pending(k)
    /\ calls' = [calls EXCEPT ![k].status = "rejected", ![k].message = <<msg>>]
    /\ error' = SetState(error, <<msg>>)
    /\ loading' = SetState(loading, FALSE)
    /\ UNCHANGED <<data, phase, intervalRef, timers, ticks>>
    /\ UNCHANGED scriptVars

\* The effect's cleanup: if (intervalRef.current) clearInterval(...).
Cleanup ==
    /\ phase = "mounted"
    /\ phase' = "unmounted"
    /\ timers' = IF intervalRef # Null
                 THEN {t \in timers : t.id # intervalRef[1]}
                 ELSE timers
    /\ UNCHANGED <<data, loading, error, intervalRef, calls, ticks>>
    /\ UNCHANGED scriptVars

InitHook ==
    /\ pc = [i \in Invs |-> "idle"]
    /\ pid = [i \in Invs |-> 1]
    /\ mode = [i \in Invs |-> "any"]
    /\ avail = FALSE
    /\ sessions = [n \in Names |-> 0]
    /\ log = [i \in Invs |-> <<>>]
    /\ OUTPUT = [i \in Invs |-> <<>>]
    /\ sh = [i \in Invs |-> NoVars]
    /\ stdout = [i \in Invs |-> <<>>]
    /\ exit = [i \in Invs |-> -1]
    /\ HookRendered

NextHook ==
    \/ Mount
    \/ Tick
    \/ Refresh
    \/ \E k \in 1..Len(calls), r \in Results : Resolve(k, r)
    \/ \E k \in 1..Len(calls), msg \in Failures : Reject(k, msg)
    \/ Cleanup

SpecHook == InitHook /\ [][NextHook]_vars

\* ------------------------------------------------- claims on the hook
\* In this step a call was started by `by`, and is in flight after it.
StartedBy(by) ==
    /\ Len(calls') = Len(calls) + 1
    /\ SubSeq(calls', 1, Len(calls)) = calls
    /\ calls'[Len(calls')].by = by
    /\ calls'[Len(calls')].status = "pending"
TimerCalls(c) == {k \in 1..Len(c) : c[k].by = "timer"}

\* C12: the effect starts a fetch when the hook mounts and sets a timer of
\* 60 seconds; every firing of the timer starts a fetch, whether the
\* earlier calls resolved, rejected or are still in flight; once the
\* cleanup has run the timer does not fire and no call is started by it.
C12_FetchAtMountAndEveryTick ==
    [][/\ (phase = "rendered" /\ phase' = "mounted") =>
              /\ StartedBy("mount")
              /\ timers' = {[id |-> 1, ms |-> 60000]}
       /\ ticks' # ticks => StartedBy("timer")
       /\ phase = "unmounted" =>
              /\ ticks' = ticks
              /\ TimerCalls(calls') = TimerCalls(calls)]_vars

\* The timer fired after the first call was rejected and again while the
\* second call was in flight, and then the cleanup ran.
C12_Witness ==
    /\ phase = "unmounted"
    /\ ticks = 2 /\ Len(calls) = 3
    /\ calls[1].by = "mount" /\ calls[1].status = "rejected"
    /\ calls[2].by = "timer" /\ calls[2].status = "pending"
    /\ calls[3].by = "timer"
    /\ timers = {}

\* A result has an error when its error field is a string that is not empty.
HasError(r) == r.error # Null /\ r.error # <<"">>

\* C13: while the hook is mounted, a call that rejects sets error to the
\* failure's message, leaves data as it was and sets loading to false; a
\* call that resolves sets data to the result and error to the result's
\* error, or to null when the result has none.
C13_RejectAndResolve ==
    [][\A k \in 1..Len(calls) :
          (Pending(k) /\ phase # "unmounted") =>
              /\ calls'[k].status = "rejected" =>
                    /\ error' = calls'[k].message
                    /\ data' = data
                    /\ loading' = FALSE
              /\ calls'[k].status = "resolved" =>
                    /\ data' = calls'[k].result
                    /\ error' = IF HasError(calls'[k].result[1])
                                THEN calls'[k].result[1].error
                                ELSE Null]_vars

\* The first call was rejected and the second then resolved with a result
\* that has no error: the error of the failure is cleared.
C13_Witness ==
    /\ phase = "mounted"
    /\ Len(calls) = 2
    /\ calls[1].status = "rejected"
    /\ calls[2].status = "resolved" /\ calls[2].result[1].error = Null
    /\ data = calls[2].result
    /\ error = Null
    /\ loading = FALSE

\* C15: while the hook is mounted, loading is true in every state in which
\* a call is in flight.
C15_LoadingWhileInFlight ==
    (phase = "mounted" /\ InFlight # {}) => loading = TRUE

\* The calls that have completed, resolved or rejected.
Completed == {k \in 1..Len(calls) : ~Pending(k)}
Resolved == {k \in 1..Len(calls) : calls[k].status = "resolved"}

\* C16: while the hook is mounted, error is what the last started of the
\* completed calls gave (its message, or its result's error or null), and
\* data is the result of the last started of the resolved calls.
C16_LatestStartedWins ==
    phase = "mounted" =>
        /\ Completed # {} =>
              LET c == calls[Max(Completed)]
              IN  error = IF c.status = "rejected" THEN c.message
                          ELSE IF HasError(c.result[1]) THEN c.result[1].error
                          ELSE Null
        /\ Resolved # {} => data = calls[Max(Resolved)].result

\* C15 and C16 hold when no call was started while another was in flight.
NoOverlap ==
    (\A k \in 1..Len(calls) : ~calls[k].overlaps) =>
        /\ C15_LoadingWhileInFlight
        /\ C16_LatestStartedWins

====
